---- MODULE Spec2Model ----
(***************************************************************************)
(* Model of the stabilization engine of bgg_swing2 (src/src/core.rs):      *)
(* the orchestrator `stabilize`, the per-game worker `runner` with its     *)
(* `check_game` / `check_users` steps, the `RegulationToken` backoff token *)
(* and the `Avg` accumulator, together with the store operations of        *)
(* src/src/db.rs they call.  Ratings are kept in tenths (75 = 7.5) and a   *)
(* mean is an exact fraction <<numerator, denominator>> of tenths.  The    *)
(* u32 fields stay far below 2^32 within the bounds, so their arithmetic   *)
(* is written without the modulus.                                         *)
(***************************************************************************)
EXTENDS Integers, Sequences, FiniteSets, TLC

\* ---------------------------------------------------------------- bounds
MaxAttempts == 2
MaxThreads == 2
MaxChan == 2
MaxRuns == 2
MaxLimit == 3
MaxCalls == 5
MaxSeed == 2
MaxAdds == 3

\* ------------------------------------------------------ program constants
LOWER_BOUND == 20
UPPER_BOUND == 80
DelayStep == 500

\* the ids of the games in the store
Games == {1, 2}
Users == {"alice", "bob"}
\* averages the remote source may report for a rater (tenths)
AvgValues == {LOWER_BOUND, 60, UPPER_BOUND, 95}

VARIABLES
    attempts,   \* Config.attempts
    threads,    \* Config.threads
    dbGames,    \* table games: id -> [page, votes, rating, stable]
    dbUsers,    \* table users: function from the stored rater names to trusted
    running,    \* the shared AtomicBool
    chan,       \* the mpsc channel, a FIFO of Message
    opc,        \* position of stabilize: "start", "drain", "join", "returned"
    job_size,   \* games.len()
    finished,   \* stabilize's counter of terminal messages
    result,     \* stabilize's result
    pc,         \* position of each worker task
    game,       \* each worker's Game value: [page, votes, rating]
    tkn,        \* each worker's RegulationToken: [limit, i]
    idx,        \* check_users: index of the user under examination
    user_map,   \* check_users: the HashMap built so far
    rate,       \* check_users: the last average fetched from the remote source
    term,       \* the terminal message the worker has sent ("none" before)
    clean,      \* history: the worker met no remote or store failure and
                \* every trust value it used is the stored one
    start_page, \* history: the page the worker's game had when it was loaded
    streak,     \* history: the failed page requests in a row since the token
                \* was at 0, 0 when the last token call was not one of them
    folds,      \* history: per game, the pages committed so far, in order
    run,        \* number of the current invocation of the program
    tok,        \* a RegulationToken exercised on its own
    calls,      \* history: the calls made on tok, "e" = ease, "h" = harden
    loaded,     \* history: get_unstable_games returned the games of this run
    passed,     \* the message the last turn of stabilize's loop gave to the
                \* progress callback, NoMsg when it gave none
    writes,     \* history: per rater, the writes that changed table users
    acc,        \* an Avg exercised on its own
    seed,       \* history: the Avg as Avg::new built it
    added       \* history: the values passed to avg.add, in order

wvars == <<pc, game, tkn, idx, user_map, rate, term, clean, start_page,
           streak>>
ovars == <<opc, job_size, finished, result, loaded, passed>>
dbvars == <<dbGames, dbUsers, writes>>
cfg == <<attempts, threads>>
avars == <<acc, seed, added>>
tvars == <<tok, calls, acc, seed, added>>
vars == <<attempts, threads, dbGames, dbUsers, running, chan, opc, job_size,
          finished, result, pc, game, tkn, idx, user_map, rate, term, clean,
          start_page, streak, folds, run, tok, calls, loaded, passed, writes,
          acc, seed, added>>

\* ------------------------------------------------------------ remote data
\* The pages of ratings the remote source serves for a game; every page
\* after the last listed one is empty.
RemotePages(g) ==
    IF g % 2 = 1
    THEN << << <<"alice", 75>>, <<"bob", 99>> >> >>
    ELSE << << <<"bob", 40>> >>, << <<"alice", 60>> >> >>

RemotePage(g, p) ==
    IF p \in 1..Len(RemotePages(g)) THEN RemotePages(g)[p] ELSE << >>

\* ------------------------------------------------------------------- Avg
RECURSIVE Gcd(_, _)
Gcd(a, b) == IF b = 0 THEN a ELSE Gcd(b, a % b)

Reduce(num, den) ==
    LET d == Gcd(num, den) IN IF d = 0 THEN <<0, 1>> ELSE <<num \div d, den \div d>>

Avg_new(n, val) == [n |-> n, val |-> val]

\* an add that weighs the old mean as a single value
Avg_add_unweighted(a, nmbr) ==
    LET n1 == a.n + 1
    IN  [n |-> n1,
         val |-> Reduce(nmbr * a.val[2] + a.val[1], 2 * a.val[2])]

Avg_add(a, nmbr) ==
    LET n1 == a.n + 1
    IN  [n |-> n1,
         val |-> Reduce(nmbr * a.val[2] + (n1 - 1) * a.val[1], n1 * a.val[2])]

\* ------------------------------------------------------- RegulationToken
Token_new(limit) == [limit |-> limit, i |-> 0]

delay(t) == DelayStep * t.i

\* a stopped test that allows one attempt too many
is_stopped_late(t) == t.i > t.limit

is_stopped(t) == t.i >= t.limit

\* ease that forgets the stopped check
ease_revives(t) ==
    IF t.i # 0 THEN [t EXCEPT !.i = t.i - 1] ELSE t

\* ease that forgets the zero check
ease_underflows(t) ==
    IF ~is_stopped(t) THEN [t EXCEPT !.i = t.i - 1] ELSE t

ease(t) ==
    IF ~is_stopped(t) /\ t.i # 0 THEN [t EXCEPT !.i = t.i - 1] ELSE t

\* harden that climbs two levels
harden_twice(t) == [t EXCEPT !.i = t.i + 2]

harden(t) == [t EXCEPT !.i = t.i + 1]

\* ----------------------------------------------------------------- trust
\* trust with the bounds included
trust_closed(rating) == LOWER_BOUND <= rating /\ rating <= UPPER_BOUND

trust(rating) == LOWER_BOUND < rating /\ rating < UPPER_BOUND

\* -------------------------------------------------------------- messages
Ok == [ok |-> TRUE, w |-> 0, kind |-> "none"]
Err(g, kind) == [ok |-> FALSE, w |-> g, kind |-> kind]

DieErr(g, kind) == [type |-> "DieErr", err |-> Err(g, kind)]
DieResult(g, gm) == [type |-> "DieResult", id |-> g, game |-> gm]
DieInterrupt == [type |-> "DieInterrupt"]
NoteErr == [type |-> "NoteErr"]
NoteUserProgress(u) == [type |-> "NoteUserProgress", user |-> u]
NoteGameProgress(g, gm) == [type |-> "NoteGameProgress", id |-> g, game |-> gm]
NoMsg == [type |-> "none"]

\* tx.send: the channel is unbounded in the program; the model holds a
\* sender back while MaxChan messages are waiting
CanSend == Len(chan) < MaxChan
Send(m) == chan' = Append(chan, m)

\* ------------------------------------------------------------------ Init
FreshGame == [page |-> 1, votes |-> 0, rating |-> <<0, 1>>]

\* the state of a freshly pulled store (db.rs 49-50) before `balance` runs
Base ==
    /\ dbGames = [g \in Games |-> [page |-> 1, votes |-> 0, rating |-> <<0, 1>>,
                                   stable |-> FALSE]]
    /\ dbUsers = << >>
    /\ running = TRUE
    /\ chan = << >>
    /\ opc = "start"
    /\ job_size = 0
    /\ finished = 0
    /\ result = Ok
    /\ pc = [g \in Games |-> "idle"]
    /\ game = [g \in Games |-> FreshGame]
    /\ tkn = [g \in Games |-> Token_new(0)]
    /\ idx = [g \in Games |-> 0]
    /\ user_map = [g \in Games |-> << >>]
    /\ rate = [g \in Games |-> 0]
    /\ term = [g \in Games |-> "none"]
    /\ clean = [g \in Games |-> FALSE]
    /\ start_page = [g \in Games |-> 0]
    /\ streak = [g \in Games |-> 0]
    /\ folds = [g \in Games |-> << >>]
    /\ run = 1
    /\ calls = << >>
    /\ loaded = FALSE
    /\ passed = NoMsg
    /\ writes = [u \in Users |-> 0]
    /\ added = << >>

Init ==
    /\ Base
    /\ attempts \in 0..MaxAttempts
    /\ threads \in 1..MaxThreads
    /\ tok = Token_new(0)
    /\ acc = Avg_new(0, <<0, 1>>)
    /\ seed = acc

\* ------------------------------------------------------------- stabilize
\* core.rs 212-221: create the channel and the pool, load the unstable
\* games and submit one task per game.  A store error leaves through `?`.
Load ==
    /\ opc = "start"
    /\ \/ /\ opc' = "returned"
          /\ result' = Err(0, "get_unstable_games")
          /\ UNCHANGED <<job_size, finished, loaded, passed, wvars>>
       \/ LET games == {g \in Games : ~dbGames[g].stable}
          IN  /\ job_size' = Cardinality(games)
              /\ finished' = 0
              /\ result' = Ok
              /\ opc' = "drain"
              /\ loaded' = TRUE
              /\ UNCHANGED passed
              /\ pc' = [g \in Games |-> IF g \in games THEN "queued" ELSE "idle"]
              /\ game' = [g \in Games |->
                            [page |-> dbGames[g].page, votes |-> dbGames[g].votes,
                             rating |-> dbGames[g].rating]]
              /\ clean' = [g \in Games |-> g \in games]
              /\ start_page' = [g \in Games |->
                                  IF g \in games THEN dbGames[g].page ELSE 0]
              /\ UNCHANGED <<tkn, idx, user_map, rate, term, streak>>
    /\ UNCHANGED <<cfg, dbvars, running, chan, folds, run, tvars>>

\* core.rs 236-241: the arms of the match that call the callback
progress(m) == IF m.type \in {"DieErr", "DieInterrupt"} THEN NoMsg ELSE m

\* a turn that hands every message to the callback
Handle_passes_all(m) ==
    /\ running' = IF m.type = "DieErr" THEN FALSE ELSE running
    /\ result' = IF m.type = "DieErr" THEN m.err ELSE result
    /\ finished' = IF m.type \in {"DieErr", "DieResult", "DieInterrupt"}
                   THEN finished + 1 ELSE finished
    /\ passed' = m

\* a turn that takes an interrupted worker for a failed one
Handle_interrupt_fails(m) ==
    /\ running' = IF m.type = "DieErr" THEN FALSE ELSE running
    /\ result' = IF m.type = "DieErr" THEN m.err
                 ELSE IF m.type = "DieInterrupt" THEN Err(0, "interrupt")
                 ELSE result
    /\ finished' = IF m.type \in {"DieErr", "DieResult", "DieInterrupt"}
                   THEN finished + 1 ELSE finished
    /\ passed' = progress(m)

\* a turn that forgets to clear the shared flag on a fatal message
Handle_no_cancel(m) ==
    /\ running' = running
    /\ result' = IF m.type = "DieErr" THEN m.err ELSE result
    /\ finished' = IF m.type \in {"DieErr", "DieResult", "DieInterrupt"}
                   THEN finished + 1 ELSE finished
    /\ passed' = progress(m)

\* core.rs 227-244: one turn of `for received in rx`
Handle(m) ==
    /\ running' = IF m.type = "DieErr" THEN FALSE ELSE running
    /\ result' = IF m.type = "DieErr" THEN m.err ELSE result
    /\ finished' = IF m.type \in {"DieErr", "DieResult", "DieInterrupt"}
                   THEN finished + 1 ELSE finished
    /\ passed' = progress(m)

Recv ==
    /\ opc = "drain"
    /\ chan # << >>
    /\ Handle(Head(chan))
    /\ chan' = Tail(chan)
    /\ opc' = IF finished' = job_size THEN "join" ELSE "drain"
    /\ UNCHANGED <<cfg, dbvars, job_size, loaded, wvars, folds, run, tvars>>

\* core.rs 245-246: pool.join() waits for the tasks, then the result is returned
Join ==
    /\ opc = "join"
    /\ \A g \in Games : pc[g] \in {"idle", "done"}
    /\ opc' = "returned"
    /\ UNCHANGED <<cfg, dbvars, running, chan, job_size, finished, result,
                   loaded, passed, wvars, folds, run, tvars>>

\* main.rs 66-68: the ctrl-c handler clears the flag
Interrupt ==
    /\ opc \in {"start", "drain", "join"}
    /\ running
    /\ running' = FALSE
    /\ UNCHANGED <<cfg, dbvars, chan, ovars, wvars, folds, run, tvars>>

\* main.rs 61-78: the program is started again on the same store
NextRun ==
    /\ opc = "returned"
    /\ run < MaxRuns
    /\ run' = run + 1
    /\ running' = TRUE
    /\ chan' = << >>
    /\ opc' = "start"
    /\ job_size' = 0
    /\ finished' = 0
    /\ result' = Ok
    /\ loaded' = FALSE
    /\ passed' = NoMsg
    /\ pc' = [g \in Games |-> "idle"]
    /\ game' = [g \in Games |-> FreshGame]
    /\ tkn' = [g \in Games |-> Token_new(0)]
    /\ idx' = [g \in Games |-> 0]
    /\ user_map' = [g \in Games |-> << >>]
    /\ rate' = [g \in Games |-> 0]
    /\ term' = [g \in Games |-> "none"]
    /\ clean' = [g \in Games |-> FALSE]
    /\ start_page' = [g \in Games |-> 0]
    /\ streak' = [g \in Games |-> 0]
    /\ UNCHANGED <<cfg, dbvars, folds, tvars>>

\* ---------------------------------------------------------------- runner
Active(g) == pc[g] \notin {"idle", "queued", "done"}

\* the worker sends its terminal message and returns
Die(g, m, t) ==
    /\ CanSend
    /\ Send(m)
    /\ pc' = [pc EXCEPT ![g] = "done"]
    /\ term' = [term EXCEPT ![g] = t]
    /\ idx' = [idx EXCEPT ![g] = 0]
    /\ user_map' = [user_map EXCEPT ![g] = << >>]
    /\ rate' = [rate EXCEPT ![g] = 0]

Fatal(g, kind) ==
    /\ Die(g, DieErr(g, kind), "fatal")
    /\ clean' = [clean EXCEPT ![g] = @ /\ kind = "token"]

\* core.rs 213, 220, 147-158: a pool thread takes the task from the queue,
\* opens its connection and builds its token
Start(g) ==
    /\ pc[g] = "queued"
    /\ Cardinality({h \in Games : Active(h)}) < threads
    /\ \/ /\ Fatal(g, "open")
          /\ UNCHANGED tkn
       \/ /\ pc' = [pc EXCEPT ![g] = "loop"]
          /\ tkn' = [tkn EXCEPT ![g] = Token_new(attempts)]
          /\ UNCHANGED <<chan, term, idx, user_map, rate, clean>>
    /\ UNCHANGED <<cfg, dbvars, running, ovars, game, folds, run, start_page, streak,
                   tvars>>

\* a loop head that sends the interrupted message and goes on, the `return`
\* after it forgotten
LoopHead_no_return(g) ==
    /\ pc[g] = "loop"
    /\ IF is_stopped(tkn[g])
       THEN Fatal(g, "token")
       ELSE /\ CanSend
            /\ Send(IF ~running THEN DieInterrupt
                    ELSE NoteGameProgress(g, game[g]))
            /\ pc' = [pc EXCEPT ![g] = "fetch"]
            /\ UNCHANGED <<term, idx, user_map, rate, clean>>
    /\ UNCHANGED <<cfg, dbvars, running, ovars, game, tkn, folds, run, start_page, streak,
                   tvars>>

\* core.rs 159-173, 109: the head of the loop; a worker that goes on
\* announces its request
LoopHead(g) ==
    /\ pc[g] = "loop"
    /\ IF is_stopped(tkn[g])
       THEN Fatal(g, "token")
       ELSE IF ~running
            THEN /\ Die(g, DieInterrupt, "interrupt")
                 /\ UNCHANGED clean
            ELSE /\ CanSend
                 /\ Send(NoteGameProgress(g, game[g]))
                 /\ pc' = [pc EXCEPT ![g] = "fetch"]
                 /\ UNCHANGED <<term, idx, user_map, rate, clean>>
    /\ UNCHANGED <<cfg, dbvars, running, ovars, game, tkn, folds, run, start_page, streak,
                   tvars>>

\* a fetch that moves to the next page although the request failed
FetchPage_advances(g) ==
    /\ pc[g] = "fetch"
    /\ \/ /\ CanSend
          /\ Send(NoteErr)
          /\ tkn' = [tkn EXCEPT ![g] = harden(tkn[g])]
          /\ streak' = [streak EXCEPT ![g] = IF tkn[g].i = 0 THEN 1
                                             ELSE IF @ > 0 THEN @ + 1 ELSE 0]
          /\ pc' = [pc EXCEPT ![g] = "loop"]
          /\ clean' = [clean EXCEPT ![g] = FALSE]
          /\ game' = [game EXCEPT ![g].page = game[g].page + 1]
          /\ UNCHANGED idx
       \/ /\ tkn' = [tkn EXCEPT ![g] = ease(tkn[g])]
          /\ streak' = [streak EXCEPT ![g] = 0]
          /\ IF RemotePage(g, game[g].page) = << >>
             THEN /\ game' = [game EXCEPT ![g].page = game[g].page + 1]
                  /\ pc' = [pc EXCEPT ![g] = "save_stable"]
                  /\ UNCHANGED idx
             ELSE /\ pc' = [pc EXCEPT ![g] = "users"]
                  /\ idx' = [idx EXCEPT ![g] = 1]
                  /\ UNCHANGED game
          /\ UNCHANGED <<chan, clean>>
    /\ UNCHANGED <<cfg, dbvars, running, ovars, user_map, rate, term, folds,
                   run, start_page, tvars>>

\* core.rs 110-126: the answer of the remote source to the page request
FetchPage(g) ==
    /\ pc[g] = "fetch"
    /\ \/ /\ CanSend
          /\ Send(NoteErr)
          /\ tkn' = [tkn EXCEPT ![g] = harden(tkn[g])]
          /\ streak' = [streak EXCEPT ![g] = IF tkn[g].i = 0 THEN 1
                                             ELSE IF @ > 0 THEN @ + 1 ELSE 0]
          /\ pc' = [pc EXCEPT ![g] = "loop"]
          /\ clean' = [clean EXCEPT ![g] = FALSE]
          /\ UNCHANGED <<game, idx>>
       \/ /\ tkn' = [tkn EXCEPT ![g] = ease(tkn[g])]
          /\ streak' = [streak EXCEPT ![g] = 0]
          /\ IF RemotePage(g, game[g].page) = << >>
             THEN /\ game' = [game EXCEPT ![g].page = game[g].page + 1]
                  /\ pc' = [pc EXCEPT ![g] = "save_stable"]
                  /\ UNCHANGED idx
             ELSE /\ pc' = [pc EXCEPT ![g] = "users"]
                  /\ idx' = [idx EXCEPT ![g] = 1]
                  /\ UNCHANGED game
          /\ UNCHANGED <<chan, clean>>
    /\ UNCHANGED <<cfg, dbvars, running, ovars, user_map, rate, term, folds,
                   run, start_page, tvars>>

\* the page under examination (the `users` vector of check_game)
PageOf(g) == RemotePage(g, game[g].page)

\* a fold that counts every rating, trusted or not
RECURSIVE FoldPage_all(_, _, _, _)
FoldPage_all(avg, users, umap, k) ==
    IF k > Len(users) THEN avg
    ELSE FoldPage_all(Avg_add(avg, users[k][2]), users, umap, k + 1)

\* core.rs 135-139: add the ratings of the trusted users, in page order
RECURSIVE FoldPage(_, _, _, _)
FoldPage(avg, users, umap, k) ==
    IF k > Len(users) THEN avg
    ELSE LET user == users[k][1]
             rating == users[k][2]
         IN  FoldPage(IF user \in DOMAIN umap /\ umap[user]
                      THEN Avg_add(avg, rating) ELSE avg,
                      users, umap, k + 1)

\* core.rs 66, 97-99, 128-144: with `umap` the map after the current user,
\* go to the next user or, after the last one, update the game in memory
NextUser(g, umap) ==
    IF idx[g] < Len(PageOf(g))
    THEN /\ idx' = [idx EXCEPT ![g] = @ + 1]
         /\ user_map' = [user_map EXCEPT ![g] = umap]
         /\ pc' = [pc EXCEPT ![g] = "users"]
         /\ UNCHANGED <<game, rate>>
    ELSE /\ LET avg == FoldPage(Avg_new(game[g].votes, game[g].rating),
                                PageOf(g), umap, 1)
            IN  game' = [game EXCEPT ![g] = [page |-> @.page + 1,
                                             votes |-> avg.n,
                                             rating |-> avg.val]]
         /\ pc' = [pc EXCEPT ![g] = "save"]
         /\ idx' = [idx EXCEPT ![g] = 0]
         /\ user_map' = [user_map EXCEPT ![g] = << >>]
         /\ rate' = [rate EXCEPT ![g] = 0]

\* db.rs 111-123 called from core.rs 68, 92-95: look the user up in the store
CheckUser(g) ==
    /\ pc[g] = "users"
    /\ LET user == PageOf(g)[idx[g]][1]
       IN  \/ /\ Fatal(g, "check_user")
              /\ UNCHANGED game
           \/ /\ user \in DOMAIN dbUsers
              /\ NextUser(g, (user :> dbUsers[user]) @@ user_map[g])
              /\ UNCHANGED <<chan, term, clean>>
           \/ /\ user \notin DOMAIN dbUsers
              /\ pc' = [pc EXCEPT ![g] = "ask"]
              /\ UNCHANGED <<chan, term, rate, clean, idx, user_map, game>>
    /\ UNCHANGED <<cfg, dbvars, running, ovars, tkn, folds, run, start_page, streak,
                   tvars>>

\* a lookup that stores the user as untrusted when the remote source fails
AskUser_caches(g) ==
    /\ pc[g] = "ask"
    /\ \/ /\ CanSend
          /\ Send(NoteErr)
          /\ dbUsers' = (PageOf(g)[idx[g]][1] :> FALSE) @@ dbUsers
          /\ tkn' = [tkn EXCEPT ![g] = harden(tkn[g])]
          /\ pc' = [pc EXCEPT ![g] = "loop"]
          /\ idx' = [idx EXCEPT ![g] = 0]
          /\ user_map' = [user_map EXCEPT ![g] = << >>]
          /\ rate' = [rate EXCEPT ![g] = 0]
          /\ clean' = [clean EXCEPT ![g] = FALSE]
       \/ /\ \E r \in AvgValues : rate' = [rate EXCEPT ![g] = r]
          /\ pc' = [pc EXCEPT ![g] = "add"]
          /\ UNCHANGED <<chan, tkn, idx, user_map, clean, dbUsers>>
    /\ UNCHANGED <<cfg, dbGames, writes, running, ovars, game, term, folds, run,
                   start_page, streak, tvars>>

\* core.rs 72-79: the answer of the remote source about an unseen user
AskUser(g) ==
    /\ pc[g] = "ask"
    /\ \/ /\ CanSend
          /\ Send(NoteErr)
          /\ tkn' = [tkn EXCEPT ![g] = harden(tkn[g])]
          /\ pc' = [pc EXCEPT ![g] = "loop"]
          /\ idx' = [idx EXCEPT ![g] = 0]
          /\ user_map' = [user_map EXCEPT ![g] = << >>]
          /\ rate' = [rate EXCEPT ![g] = 0]
          /\ clean' = [clean EXCEPT ![g] = FALSE]
       \/ /\ \E r \in AvgValues : rate' = [rate EXCEPT ![g] = r]
          /\ pc' = [pc EXCEPT ![g] = "add"]
          /\ UNCHANGED <<chan, tkn, idx, user_map, clean>>
    /\ UNCHANGED <<cfg, dbvars, running, ovars, game, term, folds, run, start_page, streak,
                   tvars>>

\* insert or replace into users
add_user_replace(tbl, user, trusted) ==
    (user :> trusted) @@ tbl

\* db.rs 92-101: insert or ignore into users
add_user(tbl, user, trusted) ==
    IF user \in DOMAIN tbl THEN tbl ELSE (user :> trusted) @@ tbl

\* core.rs 81-90: classify the user, store it, remember it
AddUser(g) ==
    /\ pc[g] = "add"
    /\ LET user == PageOf(g)[idx[g]][1]
           trusted == trust(rate[g])
       IN  \/ /\ Fatal(g, "add_user")
              /\ UNCHANGED <<tkn, dbUsers, writes, game>>
           \/ /\ CanSend
              /\ dbUsers' = add_user(dbUsers, user, trusted)
              /\ writes' = IF dbUsers' = dbUsers THEN writes
                            ELSE [writes EXCEPT ![user] = @ + 1]
              /\ tkn' = [tkn EXCEPT ![g] = ease(tkn[g])]
              /\ Send(NoteUserProgress(user))
              /\ NextUser(g, (user :> trusted) @@ user_map[g])
              /\ clean' = [clean EXCEPT ![g] = @ /\ dbUsers'[user] = trusted]
              /\ UNCHANGED term
    /\ UNCHANGED <<cfg, dbGames, running, ovars, folds, run, start_page, streak,
                   tvars>>

\* an update without its WHERE clause
update_game_every_row(tbl, g, gm, stable) ==
    [h \in DOMAIN tbl |-> [page |-> gm.page, votes |-> gm.votes,
                           rating |-> gm.rating, stable |-> stable]]

\* an update that leaves the stored page as it was
update_game_keeps_page(tbl, g, gm, stable) ==
    [tbl EXCEPT ![g] = [page |-> tbl[g].page, votes |-> gm.votes,
                        rating |-> gm.rating, stable |-> stable]]

\* db.rs 145-152: UPDATE games SET page, stable, rating, num_votes WHERE id
update_game(tbl, g, gm, stable) ==
    [tbl EXCEPT ![g] = [page |-> gm.page, votes |-> gm.votes,
                        rating |-> gm.rating, stable |-> stable]]

\* a write-back that announces the committed page itself
Save_announces(g) ==
    /\ pc[g] = "save"
    /\ \/ /\ Fatal(g, "update_game")
          /\ UNCHANGED <<dbGames, folds>>
       \/ /\ dbGames' = update_game(dbGames, g, game[g], FALSE)
          /\ folds' = [folds EXCEPT ![g] = Append(@, game[g].page - 1)]
          /\ CanSend
          /\ Send(NoteGameProgress(g, game[g]))
          /\ pc' = [pc EXCEPT ![g] = "loop"]
          /\ UNCHANGED <<term, idx, user_map, rate, clean>>
    /\ UNCHANGED <<cfg, dbUsers, writes, running, ovars, game, tkn, run,
                   start_page, streak, tvars>>

\* core.rs 182-190: write the page back and go round again
Save(g) ==
    /\ pc[g] = "save"
    /\ \/ /\ Fatal(g, "update_game")
          /\ UNCHANGED <<dbGames, folds>>
       \/ /\ dbGames' = update_game(dbGames, g, game[g], FALSE)
          /\ folds' = [folds EXCEPT ![g] = Append(@, game[g].page - 1)]
          /\ pc' = [pc EXCEPT ![g] = "loop"]
          /\ UNCHANGED <<chan, term, idx, user_map, rate, clean>>
    /\ UNCHANGED <<cfg, dbUsers, writes, running, ovars, game, tkn, run,
                   start_page, streak, tvars>>

\* an end of data that reports the game stable whether or not the write
\* succeeded
SaveStable_unchecked(g) ==
    /\ pc[g] = "save_stable"
    /\ \/ UNCHANGED dbGames
       \/ dbGames' = update_game(dbGames, g, game[g], TRUE)
    /\ Die(g, DieResult(g, game[g]), "stable")
    /\ UNCHANGED clean
    /\ UNCHANGED <<cfg, dbUsers, writes, running, ovars, game, tkn, folds, run,
                   start_page, streak, tvars>>

\* core.rs 192-202: the last page has been reached
SaveStable(g) ==
    /\ pc[g] = "save_stable"
    /\ \/ /\ Fatal(g, "update_game")
          /\ UNCHANGED dbGames
       \/ /\ dbGames' = update_game(dbGames, g, game[g], TRUE)
          /\ Die(g, DieResult(g, game[g]), "stable")
          /\ UNCHANGED clean
    /\ UNCHANGED <<cfg, dbUsers, writes, running, ovars, game, tkn, folds, run,
                   start_page, streak, tvars>>

Worker(g) ==
    \/ Start(g)
    \/ LoopHead(g)
    \/ FetchPage(g)
    \/ CheckUser(g)
    \/ AskUser(g)
    \/ AddUser(g)
    \/ Save(g)
    \/ SaveStable(g)

Next ==
    \/ Load
    \/ Recv
    \/ Join
    \/ Interrupt
    \/ NextRun
    \/ \E g \in Games : Worker(g)

Spec == Init /\ [][Next]_vars

\* one invocation of the program, every task and the orchestrator scheduled
NextOnce ==
    \/ Load
    \/ Recv
    \/ Join
    \/ Interrupt
    \/ \E g \in Games : Worker(g)

FairSpec ==
    /\ Init
    /\ [][NextOnce]_vars
    /\ WF_vars(Load \/ Recv \/ Join)
    /\ \A g \in Games : WF_vars(Worker(g))

\* ------------------------------------------ the token exercised on its own
TokenInit ==
    /\ Base
    /\ attempts = 0
    /\ threads = 1
    /\ tok \in {Token_new(limit) : limit \in 0..MaxLimit}
    /\ acc = Avg_new(0, <<0, 1>>)
    /\ seed = acc

TokEase ==
    /\ Len(calls) < MaxCalls
    /\ tok' = ease(tok)
    /\ calls' = Append(calls, "e")
    /\ UNCHANGED <<cfg, dbvars, running, chan, ovars, wvars, folds, run, avars>>

TokHarden ==
    /\ Len(calls) < MaxCalls
    /\ tok' = harden(tok)
    /\ calls' = Append(calls, "h")
    /\ UNCHANGED <<cfg, dbvars, running, chan, ovars, wvars, folds, run, avars>>

TokenNext == TokEase \/ TokHarden

TokenSpec == TokenInit /\ [][TokenNext]_vars

\* -------------------------------------------- the Avg exercised on its own
\* means an Avg may be seeded with and values it may be given (tenths)
SeedMeans == {<<0, 1>>, <<55, 1>>, <<20, 3>>}
AddValues == {10, 75, 100}

AvgInit ==
    /\ Base
    /\ attempts = 0
    /\ threads = 1
    /\ tok = Token_new(0)
    /\ seed \in {Avg_new(n, val) : n \in 0..MaxSeed, val \in SeedMeans}
    /\ acc = seed

AvgAdd ==
    /\ Len(added) < MaxAdds
    /\ \E nmbr \in AddValues :
          /\ acc' = Avg_add(acc, nmbr)
          /\ added' = Append(added, nmbr)
    /\ UNCHANGED <<cfg, dbvars, running, chan, ovars, wvars, folds, run, tok,
                   calls, seed>>

AvgNext == AvgAdd

AvgSpec == AvgInit /\ [][AvgNext]_vars

\* =================================================================== claims

\* C8: a stopped token cannot be revived: once is_stopped() holds it holds
\* after every further ease() or harden(), and ease() on a stopped token
\* leaves i unchanged.
C8_StoppedStaysStopped ==
    [][/\ is_stopped(tok) => is_stopped(tok')
       /\ (is_stopped(tok) /\ calls' = Append(calls, "e")) => tok'.i = tok.i]_vars

\* ease() has been called on a token that had reached a positive limit
C8_Witness ==
    /\ tok.limit > 0
    /\ Len(calls) > tok.limit
    /\ \A k \in 1..tok.limit : calls[k] = "h"
    /\ calls[tok.limit + 1] = "e"
    /\ is_stopped(tok)

NoEase(cs) == \A k \in 1..Len(cs) : cs[k] = "h"

\* C9: for every sequence of ease()/harden() calls on a fresh token, i never
\* goes below 0, delay() is delayStep * i, k calls of harden() from i = 0
\* give delay() = delayStep * k, and ease() on a token that is not stopped
\* and has i > 0 lowers i by exactly 1.
C9_TokenArithmetic ==
    [][/\ tok.i >= 0 /\ tok'.i >= 0
       /\ delay(tok') = DelayStep * tok'.i
       /\ NoEase(calls') => delay(tok') = DelayStep * Len(calls')
       /\ (calls' = Append(calls, "e") /\ ~is_stopped(tok) /\ tok.i > 0)
             => tok'.i = tok.i - 1
       /\ (calls' = Append(calls, "e") /\ tok.i = 0) => tok'.i = 0]_vars

\* two harden() calls and then an ease() that took one step back
C9_Witness ==
    /\ Len(calls) = 3
    /\ calls[1] = "h" /\ calls[2] = "h" /\ calls[3] = "e"
    /\ tok.limit > 2
    /\ tok.i = 1
    /\ delay(tok) = DelayStep

\* the stored row of a game as the worker holds it in memory
Row(g) == [page |-> dbGames[g].page, votes |-> dbGames[g].votes,
           rating |-> dbGames[g].rating]

Last(q) == q[Len(q)]

\* C1: fail-fast.  Once a worker has sent a fatal terminal message, every
\* other task ends, stabilize returns an error, and at that moment the
\* number of terminal messages received equals the number of jobs submitted.
C1_FailFast ==
    (\E g \in Games : term[g] = "fatal") ~>
        (/\ opc = "returned"
         /\ ~result.ok
         /\ finished = job_size
         /\ \A h \in Games : pc[h] \in {"idle", "done"})

\* stabilize has returned an error after one worker died and the other,
\* which had been running, was interrupted
C1_Witness ==
    /\ opc = "returned"
    /\ ~result.ok
    /\ job_size = 2
    /\ finished = 2
    /\ \E g, h \in Games : term[g] = "fatal" /\ term[h] = "interrupt"

\* C2: first-error-wins.  Once stabilize holds an error, a later fatal
\* message never replaces it.
C2_FirstErrorWins ==
    [][(opc = "drain" /\ ~result.ok) => result' = result]_vars

\* C3: whenever the number of finished workers equals the number of
\* submitted jobs, stabilize is not waiting on the channel, a run with no
\* unstable game included.
C3_ReturnsWhenAllDone ==
    opc = "drain" => finished # job_size

\* C4: with attempts >= 1, a worker does not retry for ever: a running
\* worker whose iterations keep ending in a remote failure is stopped by its
\* token and sends its terminal message.
C4_PermanentFailureStops ==
    \A g \in Games : (attempts >= 1 /\ pc[g] = "loop") ~> (pc[g] = "done")

\* the first empty page of a game
EndPage(g) == Len(RemotePages(g)) + 1

RECURSIVE CountTrusted(_, _)
CountTrusted(users, k) ==
    IF k > Len(users) THEN 0
    ELSE (IF users[k][1] \in DOMAIN dbUsers /\ dbUsers[users[k][1]] THEN 1 ELSE 0)
         + CountTrusted(users, k + 1)

RECURSIVE TrustedUpTo(_, _)
TrustedUpTo(g, p) ==
    IF p = 0 THEN 0
    ELSE CountTrusted(RemotePage(g, p), 1) + TrustedUpTo(g, p - 1)

Converged(g) ==
    /\ term[g] = "stable"
    /\ dbGames[g].page = EndPage(g) + 1
    /\ dbGames[g].stable
    /\ dbGames[g].votes = TrustedUpTo(g, EndPage(g) - 1)

\* C5 as stated: a worker that starts at page 1 and meets no failure and no
\* cancellation ends stable, with page N+1 stored and votes equal to the
\* number of ratings of trusted raters on pages 1..N-1.
C5_ConvergenceAnyAttempts ==
    \A g \in Games :
        (pc[g] = "done" /\ start_page[g] = 1 /\ clean[g] /\ term[g] # "interrupt")
            => Converged(g)

\* C5 amended: the same for attempts >= 1.
C5_Convergence ==
    \A g \in Games :
        (/\ attempts >= 1
         /\ pc[g] = "done" /\ start_page[g] = 1 /\ clean[g]
         /\ term[g] # "interrupt")
            => Converged(g)

\* game 1 (alice 7.5 trusted, bob 9.9 untrusted, page 2 empty) has converged
\* in one clean run to page 3, one vote, rating 7.5
C5_Witness ==
    /\ attempts >= 1
    /\ pc[1] = "done" /\ start_page[1] = 1 /\ clean[1] /\ term[1] = "stable"
    /\ dbUsers = [u \in Users |-> u = "alice"]
    /\ dbGames[1] = [page |-> 3, votes |-> 1, rating |-> <<75, 1>>, stable |-> TRUE]

RECURSIVE RatingsUpTo(_, _)
RatingsUpTo(g, p) ==
    IF p = 0 THEN 0 ELSE Len(RemotePage(g, p)) + RatingsUpTo(g, p - 1)

\* C6: a worker holds the stored (page, votes, rating) of its game from the
\* moment it is loaded until it has folded a page, so a later run seeds its
\* average from the stored values and fetches the stored page first; over
\* all runs the pages committed for a game are 1, 2, ... below its stored
\* page, each once.
C6_Resumption ==
    \A g \in Games :
        /\ pc[g] \in {"queued", "loop", "fetch", "users", "ask", "add"}
              => game[g] = Row(g)
        /\ pc[g] # "idle" => start_page[g] <= dbGames[g].page
        /\ Len(folds[g]) <= dbGames[g].page - 1
        /\ \A k \in 1..Len(folds[g]) : folds[g][k] = k
        /\ dbGames[g].votes <= RatingsUpTo(g, Len(folds[g]))

\* in its second run game 2 was resumed at page 2 and page 2 was committed
C6_Witness ==
    /\ run = 2
    /\ start_page[2] = 2
    /\ folds[2] = <<1, 2>>
    /\ dbGames[2].page = 3

\* C7: a failed page fetch or a failed average lookup leaves the game in
\* memory and in the store as it was, sends a note-error, hardens the token
\* once, and the worker reaches its next fetch with the same page.
C7_FailureKeepsProgress ==
    [][\A g \in Games :
        /\ (pc[g] \in {"fetch", "ask"} /\ pc'[g] = "loop") =>
              /\ game'[g] = game[g]
              /\ game[g] = Row(g)
              /\ dbGames' = dbGames
              /\ tkn'[g].i = tkn[g].i + 1
              /\ chan' = Append(chan, NoteErr)
        /\ (pc[g] = "loop" /\ pc'[g] = "fetch") => game'[g] = game[g]]_vars

\* a lookup has just failed on page 2 of game 2, after that page was fetched
C7_Witness ==
    /\ pc[2] = "loop"
    /\ tkn[2].i = 1
    /\ chan # << >>
    /\ Last(chan) = NoteErr
    /\ game[2].page = 2
    /\ dbGames[2].page = 2
    /\ "alice" \notin DOMAIN dbUsers

\* C10: a newly seen rater is stored and used as trusted exactly when the
\* fetched average lies strictly between 2.0 and 8.0.
C10_TrustBoundary ==
    [][\A g \in Games :
        (pc[g] = "add" /\ pc'[g] = "users") =>
            LET user == PageOf(g)[idx[g]][1]
                inside == 20 < rate[g] /\ rate[g] < 80
            IN  /\ user_map'[g][user] = inside
                /\ user \notin DOMAIN dbUsers => dbUsers'[user] = inside]_vars

\* a rater whose average is exactly 8.0 has been stored and used as untrusted
C10_Witness ==
    \E g \in Games :
        /\ pc[g] = "users"
        /\ idx[g] = 2
        /\ rate[g] = 80
        /\ LET user == PageOf(g)[1][1]
           IN  /\ user \in DOMAIN dbUsers /\ ~dbUsers[user]
               /\ user \in DOMAIN user_map[g] /\ ~user_map[g][user]

NoFatal == \A g \in Games : term[g] # "fatal"

\* an interrupted worker left its game as its last commit wrote it: the row
\* is the game it holds, it is unstable, and its page is one more than the
\* number of pages committed
LastCommitStands(g) ==
    term[g] = "interrupt" =>
        /\ Row(g) = game[g]
        /\ ~dbGames[g].stable
        /\ dbGames[g].page = Len(folds[g]) + 1

\* C11 as stated: stabilize returns Ok(()) if and only if no worker sent a
\* fatal terminal message, and a run whose workers all ended interrupted or
\* stable leaves every game at its last page commit.
C11_OkIffNoFatalEvent ==
    opc = "returned" =>
        /\ result.ok <=> NoFatal
        /\ \A g \in Games : LastCommitStands(g)

\* C11 amended: the same once the unstable games have been loaded; when
\* loading them fails stabilize returns that error and no task was created.
C11_InterruptIsNotAnError ==
    opc = "returned" =>
        /\ loaded => (result.ok <=> NoFatal)
        /\ ~loaded => (~result.ok /\ \A g \in Games : pc[g] = "idle")
        /\ \A g \in Games : LastCommitStands(g)

\* ctrl-c ended a run in which game 2 had committed page 1 and game 1 had
\* converged: stabilize returned Ok(())
C11_Witness ==
    /\ opc = "returned"
    /\ loaded
    /\ result.ok
    /\ ~running
    /\ term[1] = "stable"
    /\ term[2] = "interrupt"
    /\ folds[2] = <<1>>
    /\ dbGames[2].page = 2

RECURSIVE SumSeq(_)
SumSeq(q) == IF q = << >> THEN 0 ELSE Head(q) + SumSeq(Tail(q))

\* the mean of s.n values equal to s.val together with the values of q
BatchMean(s, q) ==
    Reduce(s.n * s.val[1] + SumSeq(q) * s.val[2], (s.n + Len(q)) * s.val[2])

\* C12: after any sequence of add calls on Avg::new(seedCount, seedMean),
\* n() is seedCount plus the number of calls and result() is the arithmetic
\* mean of seedCount values equal to seedMean together with the added
\* values; each add realises mean := mean + (value - mean) / (count + 1).
C12_RunningAverage ==
    /\ [](acc.n = seed.n + Len(added))
    /\ [](added # << >> => acc.val = BatchMean(seed, added))
    /\ [][LET value == Last(added')
              m == acc.val
              m1 == acc'.val
          IN  \* m1 = m + (value - m) / (acc.n + 1), cross-multiplied
              m1[1] * m[2] * (acc.n + 1)
                  = (m[1] * (acc.n + 1) + value * m[2] - m[1]) * m1[2]]_vars

\* three values were added to an Avg seeded with two values of mean 5.5:
\* the mean of 5.5, 5.5, 1.0, 10.0, 7.5 is 5.9
C12_Witness ==
    /\ seed = Avg_new(2, <<55, 1>>)
    /\ added = <<10, 100, 75>>
    /\ acc = [n |-> 5, val |-> <<59, 1>>]

\* C13: a worker that finds the cancellation flag set at the head of its
\* loop sends the interrupted terminal message, no fatal one, and writes
\* nothing more to the store, also when its token is stopped at that moment.
C13_CancellationCheckedFirst ==
    [][\A g \in Games :
        (pc[g] = "loop" /\ ~running /\ pc'[g] # "loop") =>
            /\ term'[g] = "interrupt"
            /\ chan' = Append(chan, DieInterrupt)
            /\ dbGames' = dbGames /\ dbUsers' = dbUsers]_vars

IsTerminal(m) == m.type \in {"DieErr", "DieResult", "DieInterrupt"}

RECURSIVE Terminals(_)
Terminals(q) ==
    IF q = << >> THEN 0
    ELSE (IF IsTerminal(Head(q)) THEN 1 ELSE 0) + Terminals(Tail(q))

Ended == {g \in Games : term[g] # "none"}

\* C14: every worker sends exactly one terminal message and nothing after
\* it: the terminal messages received and in flight are one for each worker
\* that has ended, a worker that has ended stays ended, every message comes
\* from a worker that has not ended, and the counter of stabilize never
\* exceeds the number of jobs.
C14_OneTerminalEvent ==
    /\ [](/\ finished + Terminals(chan) = Cardinality(Ended)
          /\ \A g \in Games : pc[g] = "done" <=> g \in Ended
          /\ Cardinality(Ended) <= job_size
          /\ finished <= job_size)
    /\ [][/\ \A g \in Ended : run' = run => (term'[g] = term[g] /\ pc'[g] = "done")
          /\ Len(chan') > Len(chan) =>
                \E g \in Games \ Ended :
                    /\ pc'[g] # pc[g]
                    /\ chan' = Append(chan, Last(chan'))
                    /\ IsTerminal(Last(chan')) <=> term'[g] # "none"]_vars

\* both workers have ended and been counted: one converged, the other died
\* on a store error
C14_Witness ==
    /\ opc = "returned"
    /\ job_size = 2
    /\ finished = 2
    /\ term[1] = "stable"
    /\ term[2] = "fatal"
    /\ result = Err(2, "update_game")

\* C15: whatever the interleaving of the workers that resolve the same
\* unseen rater, the table is written at most once for a rater, a stored
\* trust flag never changes, and the insert of the worker that comes second
\* completes as a success that leaves the table as it was.
C15_FirstInsertWins ==
    /\ [](\A u \in Users :
            /\ writes[u] <= 1
            /\ writes[u] = 1 <=> u \in DOMAIN dbUsers)
    /\ [](\A g \in Games :
            (pc[g] = "add" /\ CanSend) => ENABLED (AddUser(g) /\ term'[g] = "none"))
    /\ [][/\ \A u \in DOMAIN dbUsers :
                u \in DOMAIN dbUsers' /\ dbUsers'[u] = dbUsers[u]
          /\ \A g \in Games :
                (/\ pc[g] = "add" /\ pc'[g] \notin {"add", "done"}
                 /\ PageOf(g)[idx[g]][1] \in DOMAIN dbUsers)
                    => /\ dbUsers' = dbUsers
                       /\ chan' = Append(chan, NoteUserProgress(PageOf(g)[idx[g]][1]))
                       /\ term'[g] = "none"]_vars

\* both workers fetched the average of alice while she was unseen and
\* classified her differently; worker 2 stored her first, the insert of
\* worker 1 was ignored and worker 1 went on to its next rater
C15_Witness ==
    /\ pc[1] = "users"
    /\ idx[1] = 2
    /\ game[2].page = 3
    /\ writes["alice"] = 1
    /\ "alice" \in DOMAIN user_map[1]
    /\ user_map[1]["alice"] # dbUsers["alice"]
    /\ run = 1

\* C16: a failed average lookup writes no record, so the rater stays absent
\* unless another worker stores it; a worker that finds a rater absent asks
\* the remote source before it uses any value for that rater; and no record
\* is ever removed, so those of the earlier raters of the page are kept.
C16_NoNegativeCaching ==
    [][/\ DOMAIN dbUsers \subseteq DOMAIN dbUsers'
       /\ \A g \in Games :
            /\ (pc[g] = "ask" /\ pc'[g] = "loop") =>
                  /\ dbUsers' = dbUsers
                  /\ writes' = writes
                  /\ chan' = Append(chan, NoteErr)
            /\ (pc[g] = "users" /\ PageOf(g)[idx[g]][1] \notin DOMAIN dbUsers) =>
                  /\ pc'[g] \in {"users", "ask", "done"}
                  /\ user_map'[g] \in {user_map[g], << >>}]_vars

\* on page 1 of game 1 alice was stored, then the lookup of bob failed:
\* alice is in the table, bob is not, and the worker is back at its loop head
C16_Witness ==
    /\ run = 1
    /\ pc[1] = "loop"
    /\ pc[2] = "queued"
    /\ chan = <<NoteUserProgress("alice"), NoteErr>>
    /\ "alice" \in DOMAIN dbUsers
    /\ "bob" \notin DOMAIN dbUsers
    /\ game[1].page = 1

\* the step appends a game-progress message to the channel
SendsGameProgress ==
    /\ Len(chan') = Len(chan) + 1
    /\ Last(chan').type = "NoteGameProgress"

\* the step writes game g back as unstable
Commits(g) == dbGames'[g] # dbGames[g] /\ ~dbGames'[g].stable

\* C17 as stated: a game-progress message is sent exactly by the steps that
\* commit a non-empty page, and it carries the game as just written.
C17_ProgressMarksCommit ==
    [][/\ SendsGameProgress <=> \E g \in Games : Commits(g)
       /\ \A g \in Games :
            Commits(g) => Last(chan') = NoteGameProgress(g, Row(g)')]_vars

\* C17 amended: a game-progress message is sent exactly by a worker that
\* has passed the token and cancellation checks and is about to fetch, once
\* per iteration; it carries the game as it is stored at that moment; the
\* step that commits a page sends nothing.
C17_ProgressAnnouncesFetch ==
    [][/\ SendsGameProgress <=> \E g \in Games : pc[g] = "loop" /\ pc'[g] = "fetch"
       /\ \A g \in Games :
            /\ pc'[g] = "fetch" /\ pc[g] # "fetch" =>
                  /\ pc[g] = "loop"
                  /\ ~is_stopped(tkn[g]) /\ running
                  /\ chan' = Append(chan, NoteGameProgress(g, Row(g)))
                  /\ game'[g] = game[g]
            /\ Commits(g) => chan' = chan]_vars

\* the first iteration of worker 1 sent its game-progress message and then
\* its page request failed: nothing has been committed
C17_Witness ==
    /\ run = 1
    /\ chan = <<NoteGameProgress(1, FreshGame), NoteErr>>
    /\ pc[1] = "loop"
    /\ tkn[1].i = 1
    /\ folds[1] = << >>
    /\ dbGames[1].page = 1

\* C18: the stable terminal message is sent only with the write of
\* stable = true done and carries the game as stored; a game becomes stable
\* at most once, by its own worker, and is not written again; when that
\* last write fails the worker sends a fatal message and the game stays
\* stored as unstable at its previous page.
C18_StableAfterDurable ==
    /\ [](/\ \A g \in Games :
                term[g] = "stable" => (dbGames[g].stable /\ Row(g) = game[g])
          /\ \A k \in 1..Len(chan) :
                chan[k].type = "DieResult" =>
                    /\ dbGames[chan[k].id].stable
                    /\ chan[k].game = Row(chan[k].id))
    /\ [][\A g \in Games :
            /\ dbGames[g].stable => dbGames'[g] = dbGames[g]
            /\ (~dbGames[g].stable /\ dbGames'[g].stable) =>
                  /\ pc[g] = "save_stable"
                  /\ term'[g] = "stable"
                  /\ chan' = Append(chan, DieResult(g, Row(g)'))
            /\ (pc[g] = "save_stable" /\ term'[g] = "fatal") =>
                  /\ dbGames' = dbGames
                  /\ ~dbGames[g].stable
                  /\ dbGames[g].page = game[g].page - 1
                  /\ chan' = Append(chan, DieErr(g, "update_game"))]_vars

\* game 1 has converged: its row is stable at page 3 and the stable message
\* with that snapshot is the last one in the channel
C18_Witness ==
    /\ term[1] = "stable"
    /\ dbGames[1] = [page |-> 3, votes |-> 1, rating |-> <<75, 1>>, stable |-> TRUE]
    /\ chan # << >>
    /\ Last(chan) = DieResult(1, [page |-> 3, votes |-> 1, rating |-> <<75, 1>>])

\* C19: the row of a game is written only by the worker that owns the game,
\* by its write-back steps, and each write raises the stored page by
\* exactly 1 and touches no other row; the page a worker fetches is the
\* stored page, and within a run the page it holds never decreases.
C19_SingleWriterInOrder ==
    /\ [](\A g \in Games : pc[g] = "fetch" => game[g].page = dbGames[g].page)
    /\ [][\A g \in Games :
            /\ dbGames'[g] # dbGames[g] =>
                  /\ pc[g] \in {"save", "save_stable"}
                  /\ pc'[g] \in {"loop", "done"}
                  /\ \A h \in Games \ {g} : dbGames'[h] = dbGames[h] /\ pc'[h] = pc[h]
            /\ (pc[g] \in {"save", "save_stable"} /\ pc'[g] # pc[g]
                    /\ term'[g] # "fatal") =>
                  dbGames'[g].page = dbGames[g].page + 1
            /\ dbGames'[g].page >= dbGames[g].page
            /\ run' = run => game'[g].page >= game[g].page]_vars

\* in one run game 2 was written three times, pages 2, 3 and 4, while
\* game 1 was being worked on as well
C19_Witness ==
    /\ run = 1
    /\ threads = 2
    /\ folds[2] = <<1, 2>>
    /\ dbGames[2].page = 4
    /\ dbGames[2].stable
    /\ folds[1] = <<1>>
    /\ dbGames[1].page = 2
    /\ pc[1] = "fetch"

Executing == {g \in Games : Active(g)}

\* C20: one task is created for each unstable game that was loaded, never
\* more than Config.threads tasks execute at a time, and every queued task
\* is eventually started and sends its terminal message.
C20_BoundedPool ==
    /\ [](Cardinality(Executing) <= threads)
    /\ [](loaded => /\ Cardinality({g \in Games : pc[g] # "idle"}) = job_size
                    /\ \A g \in Games : pc[g] # "idle" <=> start_page[g] >= 1)
    /\ \A g \in Games : (pc[g] = "queued") ~> (term[g] # "none")

\* the step is a turn of stabilize's loop: it takes the head of the channel
Receives == chan # << >> /\ chan' = Tail(chan) /\ opc = "drain"

\* C21: each message is taken from the channel by one turn of the loop; the
\* turn gives a note-error, user-progress or game-progress message to the
\* callback and leaves the counter alone, gives a stable message to the
\* callback, and gives a fatal or interrupted message to nobody; no other
\* step calls the callback, and when the loop has ended the channel is
\* empty, so every message sent was handled before stabilize returns.
C21_EventForwarding ==
    /\ []((loaded /\ opc \in {"join", "returned"}) => chan = << >>)
    /\ [][/\ Receives =>
                LET m == Head(chan)
                IN  /\ ~IsTerminal(m) => (passed' = m /\ finished' = finished)
                    /\ m.type = "DieResult" => passed' = m
                    /\ m.type \in {"DieErr", "DieInterrupt"} => passed' = NoMsg
                    /\ IsTerminal(m) => finished' = finished + 1
          /\ (~Receives /\ run' = run) => passed' = passed
          /\ Len(chan') < Len(chan) => (Receives \/ run' # run)]_vars

\* the loop has just given a note-error to the callback: the counter is
\* still 0 and the worker that sent it is back at its loop head
C21_Witness ==
    /\ opc = "drain"
    /\ passed = NoteErr
    /\ finished = 0
    /\ chan = << >>
    /\ pc[1] = "loop"
    /\ tkn[1].i = 1
    /\ pc[2] = "queued"

\* C22: a worker whose token went from 0 through `attempts` failed page
\* requests in a row sends the fatal message at its next loop head and
\* requests nothing more, and the turn that receives a fatal message clears
\* the shared flag; after fewer than `attempts` such failures the worker
\* still requests, and a request that then succeeds takes the token one
\* level down and the worker goes on.
C22_ExhaustionIsFatal ==
    /\ [](\A g \in Games :
            /\ streak[g] <= attempts
            /\ streak[g] > 0 => tkn[g].i = streak[g]
            /\ term[g] = "fatal" =>
                  (~running \/ \E k \in 1..Len(chan) : chan[k].type = "DieErr"))
    /\ [][/\ \A g \in Games :
              /\ (pc[g] = "loop" /\ pc'[g] # "loop" /\ streak[g] = attempts) =>
                    /\ pc'[g] = "done"
                    /\ term'[g] = "fatal"
                    /\ chan' = Append(chan, DieErr(g, "token"))
              /\ (pc[g] = "loop" /\ pc'[g] # "loop" /\ running
                      /\ 0 < streak[g] /\ streak[g] < attempts) =>
                    pc'[g] = "fetch"
              /\ (pc[g] = "fetch" /\ pc'[g] \in {"users", "save_stable"}
                      /\ 0 < streak[g]) =>
                    /\ tkn'[g].i = streak[g] - 1
                    /\ ~is_stopped(tkn'[g])
                    /\ term'[g] = "none"
          /\ (Receives /\ Head(chan).type = "DieErr") => ~running']_vars

\* with attempts = 2 the first two page requests of worker 1 failed; it
\* died on its token, and stabilize has received the message and cleared
\* the flag
C22_Witness ==
    /\ attempts = 2
    /\ streak[1] = 2
    /\ tkn[1].i = 2
    /\ term[1] = "fatal"
    /\ result = Err(1, "token")
    /\ ~running
    /\ folds[1] = << >>

\* C23: in every reachable state the stored votes of a game are the number
\* of ratings on its pages 1..page-1 whose rater is stored as trusted.
C23_OnlyTrustedCount ==
    \A g \in Games : dbGames[g].votes = TrustedUpTo(g, dbGames[g].page - 1)

\* C24: the token of a running worker has limit = attempts and
\* 0 <= i <= limit; a step raises i by at most 1, a step that raises it
\* takes the worker to its loop head, a worker goes from its loop head to a
\* request only with i < limit, and with attempts = 0 it never requests.
C24_TokenRange ==
    /\ [](\A g \in Games :
            /\ Active(g) => (/\ tkn[g].limit = attempts
                             /\ 0 <= tkn[g].i /\ tkn[g].i <= tkn[g].limit)
            /\ pc[g] \in {"fetch", "users", "ask", "add", "save", "save_stable"}
                  => (attempts > 0 /\ tkn[g].i < tkn[g].limit))
    /\ [][\A g \in Games :
            (Active(g) /\ run' = run) =>
                /\ tkn'[g].i <= tkn[g].i + 1
                /\ tkn'[g].i > tkn[g].i => (pc[g] \in {"fetch", "ask"} /\ pc'[g] = "loop")
                /\ (pc[g] = "loop" /\ tkn[g].i = tkn[g].limit /\ pc'[g] # "loop")
                      => term'[g] = "fatal"]_vars

\* with attempts = 2 a running worker has reached i = 2 = limit and is at
\* its loop head
C24_Witness ==
    /\ attempts = 2
    /\ pc[1] = "loop"
    /\ tkn[1] = [limit |-> 2, i |-> 2]
    /\ term[1] = "none"

====
